---- MODULE Spec2Model ----
(***************************************************************************)
(* Chat exchanges of qwen-thai-lora: the stream decoders of the Gradio     *)
(* chat (LLMGUIChat, src/chat_gui.py) and of the OpenAI CLI (OpenAIChat),  *)
(* the database-backed chat (DatabaseLLMGUIChat, web_chat_db.py) and the   *)
(* PostgreSQL store (ChatDatabaseManager, chat_database.py).               *)
(*                                                                         *)
(* Text is a sequence of one-character strings.  The specifications:       *)
(*   Spec        the exchanges of one DatabaseLLMGUIChat instance against  *)
(*               the store, one after the other, reasoning off;            *)
(*   SpecCancel  the same, with a consumer that may stop taking events;    *)
(*   SpecSession the same, with clear_conversation and                     *)
(*               load_session_history between two messages;                *)
(*   SpecRace    the same exchanges started by the two Gradio listeners    *)
(*               (send_btn.click, message_input.submit) and interleaved;   *)
(*   SpecStream  one exchange of a chat object without a store, over the   *)
(*               whole frame alphabet of its backend;                      *)
(*   SpecLive    one exchange of an LLMGUIChat, streamed or not, under     *)
(*               weak fairness of the handler's steps;                     *)
(*   SpecChat    the calls of one chat object without a store (LLMGUIChat, *)
(*               OllamaChat, VLLMChat, OpenAIChat) under any reasoning     *)
(*               settings;                                                 *)
(*   SpecFail    the exchanges of Spec against a store whose writes may    *)
(*               fail;                                                     *)
(*   SpecShared  the exchanges of Spec while the clear, new-session and    *)
(*               load buttons act on the same chat instance;               *)
(*   SpecPair    send_message_stream and send_message_non_stream of a      *)
(*               DatabaseLLMGUIChat run from the same state;               *)
(*   SpecStore   clients calling ChatDatabaseManager directly.             *)
(***************************************************************************)
EXTENDS Integers, Sequences, FiniteSets, TLC

VARIABLES
    conversation_history,  \* self.conversation_history of the chat instance
    current_session_id,    \* self.current_session_id (0 is None)
    session_name,          \* self.session_name ("" is None)
    loaded,                \* what the last load_session_history returned
    backend,               \* self.backend
    chat_sessions,         \* table chat_sessions: row i has session_id i
    chat_messages,         \* table chat_messages, in commit order
    calls,                 \* the locals of each handler invocation
    txn,                   \* the locals of each open add_message transaction
    raced,                 \* history: sessions on which two add_message ran at once
    exchanges              \* history: invocations begun so far

vars == <<conversation_history, current_session_id, session_name, loaded, backend,
          chat_sessions,
          chat_messages, calls, txn, raced, exchanges>>

-----------------------------------------------------------------------------
\* Bounds of the model.

\* Frames of one backend response in SpecStream.
MaxFrames == 3
\* Frames of one backend response, and handler invocations, in Spec.
MaxExchangeFrames == 3
MaxExchanges == 2
\* The same in SpecRace, where two invocations interleave.
MaxRaceFrames == 1
MaxRaceExchanges == 2
\* Frames of one backend response, and handler invocations, in SpecSession.
MaxSessionFrames == 1
MaxSessionExchanges == 2
\* Frames of one backend response, and calls, in SpecChat.
MaxChatFrames == 1
MaxChatExchanges == 2
\* Frames of one backend response, and handler invocations, in SpecFail.
MaxFailFrames == 1
MaxFailExchanges == 2
\* Frames of one backend response, handler invocations, and rows of
\* chat_sessions, in SpecShared.
MaxSharedFrames == 1
MaxSharedExchanges == 1
MaxSharedSessions == 2
\* Frames of one backend response, and handler invocations before the
\* compared pair, in SpecPair.
MaxPairFrames == 1
MaxPairExchanges == 1
\* Sessions and message rows the clients of SpecStore create.
MaxSessions == 2
MaxMessages == 5

\* The two Gradio listeners wired to handle_send (web_chat_db.py 403-415), and
\* the clients of the store.
Calls == {1, 2}

\* Text fragments a backend frame carries; the empty one is what a role frame of
\* vLLM and the last frame of Ollama carry.
Tokens == {<< >>, <<"a">>, <<"b">>}
\* Fragments in Spec.
ExchangeTokens == {<<"a">>, <<"b">>}
\* What the user submits: a message, and a blank one.
Messages == {<<"h", "i">>, <<" ">>}
\* What a backend answers with a status other than 200: response.status_code
\* (as the text str() gives) and response.text.
StatusCodes == {"404", "500"}
Bodies == {<<"n", "o">>}
Responses == {[status_code |-> s, text |-> t] : s \in StatusCodes, t \in Bodies}
NoResponse == [status_code |-> "", text |-> << >>]
\* Python's None where a text is expected: the JSON null of a text field.
None == <<"None">>

-----------------------------------------------------------------------------
\* Text helpers.

RECURSIVE Strip(_)
Strip(s) ==
    IF s = << >> THEN << >>
    ELSE IF Head(s) = " " THEN Strip(Tail(s))
    ELSE IF s[Len(s)] = " " THEN Strip(SubSeq(s, 1, Len(s) - 1))
    ELSE s

RECURSIVE Concat(_)
Concat(ss) == IF ss = << >> THEN << >> ELSE Head(ss) \o Concat(Tail(ss))

-----------------------------------------------------------------------------
\* Backend frames.  A frame is one line of the response body (one chunk of the
\* SDK iterator for OpenAI), named by what the decoder's tests see in it:
\*   blank      an empty line (keep-alive, the second newline of an SSE frame)
\*   badutf8    bytes that are not UTF-8
\*   noprefix   an SSE line that does not start with "data: "
\*   badjson    a payload json.loads rejects
\*   nonobject  a payload json.loads accepts that is null or a number
\*   noop       an object without the text field (role frame, empty delta)
\*   nulltext   an object whose text field is null
\*   delta      an object with the text field t
\*   deltadone  Ollama: an object with the text field t and done=true
\*   done       Ollama: an object with done=true; SSE: data: [DONE]
\*   nochoices  OpenAI SDK: a chunk whose choices list is empty

Frame(k, t) == [k |-> k, t |-> t]

\* The chat objects are named by their backend: "ollama" and "vllm" are the
\* two backends of the Gradio chat (LLMGUIChat), "ollama_cli" is OllamaChat,
\* "vllm_cli" is VLLMChat and "openai" is OpenAIChat.
IsCli(b) == b \in {"ollama_cli", "vllm_cli", "openai"}

\* The wire format the object decodes.
Protocol(b) ==
    CASE b \in {"ollama", "ollama_cli"} -> "ollama"
      [] b \in {"vllm", "vllm_cli"}     -> "vllm"
      [] OTHER                          -> "openai"

FramesOf(b, T) ==
    CASE Protocol(b) = "ollama" ->
            {Frame(k, << >>) : k \in {"blank", "badutf8", "badjson", "nonobject", "noop",
                                       "nulltext", "done"}}
            \cup {Frame(k, t) : k \in {"delta", "deltadone"}, t \in T}
      [] Protocol(b) = "vllm" ->
            {Frame(k, << >>) : k \in {"blank", "badutf8", "noprefix", "badjson", "nonobject",
                                       "noop", "nulltext", "done"}}
            \cup {Frame("delta", t) : t \in T}
      [] OTHER ->
            {Frame(k, << >>) : k \in {"noop", "nochoices"}}
            \cup {Frame("delta", t) : t \in T}

\* What one pass of the loop body does with a frame:
\*   skip, emit (accumulate and yield), emit_break (yield, then break),
\*   break, raise (an exception the loop does not catch).

\* _stream_ollama with the test of `done` moved before the test of `response`.
OllamaStepDoneFirst(f) ==
    CASE f.k \in {"done", "deltadone"} -> "break"
      [] f.k = "delta"                 -> "emit"
      [] f.k \in {"badutf8", "nonobject", "nulltext"} -> "raise"
      [] OTHER                         -> "skip"

\* chat_gui.py 186-200: line.decode is inside the try, which catches
\* json.JSONDecodeError only.
OllamaStep(f) ==
    CASE f.k = "blank"     -> "skip"
      [] f.k = "badutf8"   -> "raise"
      [] f.k = "badjson"   -> "skip"
      [] f.k = "nonobject" -> "raise"
      [] f.k = "nulltext"  -> "raise"
      [] f.k = "delta"     -> "emit"
      [] f.k = "deltadone" -> "emit_break"
      [] f.k = "done"      -> "break"
      [] OTHER             -> "skip"

\* The SSE loop leaving at the first frame without delta.content.
VllmStepNoopEnds(f) ==
    CASE f.k \in {"blank", "noprefix", "badjson"} -> "skip"
      [] f.k \in {"badutf8", "nonobject", "nulltext"} -> "raise"
      [] f.k = "delta"     -> "emit"
      [] OTHER             -> "break"

\* chat_gui.py 246-264, chat_app_vllm.py 142-160.
VllmStep(f) ==
    CASE f.k = "blank"     -> "skip"
      [] f.k = "badutf8"   -> "raise"
      [] f.k = "noprefix"  -> "skip"
      [] f.k = "done"      -> "break"
      [] f.k = "badjson"   -> "skip"
      [] f.k = "nonobject" -> "raise"
      [] f.k = "nulltext"  -> "raise"
      [] f.k = "delta"     -> "emit"
      [] OTHER             -> "skip"

\* openai_chat.py 167-171: a chunk whose content is None is passed over.
OpenAIStep(f) ==
    CASE f.k = "nochoices" -> "raise"
      [] f.k = "delta"     -> "emit"
      [] OTHER             -> "skip"

StepOf(b, f) ==
    CASE Protocol(b) = "ollama" -> OllamaStep(f)
      [] Protocol(b) = "vllm"   -> VllmStep(f)
      [] OTHER                  -> OpenAIStep(f)

-----------------------------------------------------------------------------
\* The store: ChatDatabaseManager.  Every method runs in a transaction of its
\* own connection (get_connection), at PostgreSQL's default READ COMMITTED: a
\* statement sees the rows committed before it began.

RECURSIVE MaxOrderOf(_, _)
MaxOrderOf(rows, sid) ==
    IF rows = << >> THEN 0
    ELSE LET m == MaxOrderOf(Tail(rows), sid)
             r == Head(rows)
         IN IF r.session_id = sid /\ r.message_order > m THEN r.message_order ELSE m

\* The SELECT without its WHERE clause.
NextOrderAnySession(rows, sid) ==
    MaxOrderOf([i \in 1..Len(rows) |-> [rows[i] EXCEPT !.session_id = sid]], sid) + 1

\* SELECT COALESCE(MAX(message_order), 0) + 1 ... WHERE session_id = %s
NextOrder(rows, sid) == MaxOrderOf(rows, sid) + 1

\* CURRENT_TIMESTAMP, the default of created_at and updated_at of
\* chat_sessions: the start time of the transaction.  The clock of the model
\* ticks at each commit of create_session.
Now == Len(chat_sessions)

\* session_name = f"{backend}-{model}-{timestamp}" (chat_database.py 110-112,
\* web_chat_db.py 48); None is "".
NoName == ""
SessionName(be) == be

\* The row create_session inserts (chat_database.py 116-120), with the column
\* defaults of lines 62-63.
SessionRow(be) ==
    [backend |-> be, session_name |-> SessionName(be), created_at |-> Now,
     updated_at |-> Now]

NoTxn == [open |-> FALSE, session_id |-> 0, role |-> "user", content |-> << >>,
          message_order |-> 0, meta |-> "none"]

\* add_message up to cur.fetchone(): the SELECT, on the committed rows.
TxnSelect(c, sid, role, content, meta) ==
    /\ txn' = [txn EXCEPT ![c] =
                 [open |-> TRUE, session_id |-> sid, role |-> role, content |-> content,
                  message_order |-> NextOrder(chat_messages, sid), meta |-> meta]]
    /\ raced' = IF \E d \in Calls \ {c} : txn[d].open /\ txn[d].session_id = sid
                THEN raced \cup {sid} ELSE raced

\* The row add_message inserts, with the order it read.
RowOf(t) == [session_id |-> t.session_id, role |-> t.role, content |-> t.content,
             message_order |-> t.message_order, meta |-> t.meta]

\* add_message from the INSERT to the commit of get_connection.  The column
\* is `content TEXT NOT NULL` (chat_database.py 72): the INSERT of a null
\* content raises.
TxnInsert(c) ==
    /\ txn[c].content # None
    /\ chat_messages' = Append(chat_messages, RowOf(txn[c]))
    /\ txn' = [txn EXCEPT ![c] = NoTxn]

\* get_conversation_history: ORDER BY message_order ASC (ties in commit order).
SessionRows(sid) == SelectSeq(chat_messages, LAMBDA r : r.session_id = sid)

-----------------------------------------------------------------------------
\* One handler invocation.

Event(k, c, e) == [k |-> k, c |-> c, e |-> e]
Msg(role, content) == [role |-> role, content |-> content]

\* pc: where the invocation stands; db: whether it runs the wrapper of
\* DatabaseLLMGUIChat; be, msg: its arguments; acc: ai_response; pend: stopped at
\* the yield of a frame that also carries done=true; events: what it yielded.
\* History of the invocation: status (how the request ended), fed (the frames
\* read), left (how the loop was left), wrote (the rows it committed),
\* began_busy (another invocation was Sending or Streaming when it began),
\* created (the session it created).
\* stream: send_message_stream (TRUE) or send_message_non_stream; resp: the
\* response whose status was not 200; reasoning, mode: show_reasoning and
\* reasoning_mode; req: the prompt or the message list of the request sent;
\* before (history): conversation_history when the call was made; lost
\* (history): the rows whose add_message raised; console: the rows the
\* process reported on its standard output; after (history):
\* conversation_history when the invocation had ended.
IdleCall == [pc |-> "idle", db |-> FALSE, be |-> "ollama", msg |-> << >>,
             pend |-> FALSE, acc |-> << >>, events |-> << >>,
             status |-> "", fed |-> << >>, left |-> "", wrote |-> << >>,
             began_busy |-> FALSE, created |-> 0,
             stream |-> TRUE, resp |-> NoResponse,
             reasoning |-> FALSE, mode |-> "simple", req |-> << >>,
             before |-> << >>, lost |-> << >>, console |-> << >>,
             after |-> << >>]

\* The last event an invocation yielded is of kind k.
Last(s) == s[Len(s)]
EndsWith(r, k) == r.events # << >> /\ Last(r.events).k = k

\* Sending or Streaming: begun, and no terminal event yielded yet.
InFlight(d) ==
    calls[d].pc \in {"create", "user_sel", "user_ins", "base", "post", "stream", "body"}

\* What the error handlers put in the assistant bubble (history[-1]["content"]).
ErrorContent(e) == <<"E", e>>

\* f"HTTP {response.status_code} - {response.text}"
HttpStatusText(resp) == <<"HTTP ", resp.status_code, " - ">> \o resp.text

\* The same without response.text.
HttpErrorCodeOnly(r) == <<"E", "Error: ">> \o <<"HTTP ", r.resp.status_code, " - ">>

\* What the caller is shown for a status other than 200: the bubble
\* f"❌ Error: HTTP ..." of the stream handlers (chat_gui.py 179-181, 239-241),
\* the status f"Connection error: HTTP ..." of the non-stream handler (328,
\* 362, 300-302), the string f"Error: HTTP ..." the CLIs return.
HttpError(r) ==
    IF IsCli(r.be) THEN <<"Error: ">> \o HttpStatusText(r.resp)
    ELSE IF r.stream THEN <<"E", "Error: ">> \o HttpStatusText(r.resp)
    ELSE <<"Connection error: ">> \o HttpStatusText(r.resp)

\* Where the invocation goes when the base generator is exhausted: the code of
\* DatabaseLLMGUIChat after its for loop, or the end of the plain handler.
AfterBase(r) == IF r.db THEN "asst_sel" ELSE "done"

\* The non-200 branch without its `return`: the loop is entered.
NonOkNextFallThrough(r) == "stream"

\* The `return` after the non-200 yield (chat_gui.py 182, 242).
NonOkNext(r) == AfterBase(r)

\* ai_response = token
AccumulateLast(acc, t) == t

\* ai_response += token
Accumulate(acc, t) == acc \o t

-----------------------------------------------------------------------------
\* The request.  The three classes with reasoning prompts hold a dict of three
\* literal templates; a template is written here as one token.

Modes == {"simple", "detailed", "chain"}
ReasoningPrompts ==
    [simple |-> <<"[simple]">>, detailed |-> <<"[detailed]">>, chain |-> <<"[chain]">>]

\* self.reasoning_prompts.get(self.reasoning_mode, self.reasoning_prompts[...])
ReasoningPrompt(b, mode) ==
    IF mode \in DOMAIN ReasoningPrompts THEN ReasoningPrompts[mode]
    ELSE ReasoningPrompts[IF b = "ollama_cli" THEN "detailed" ELSE "simple"]

\* message + reasoning_prompt
ComposeAfter(prompt, text) == text \o prompt

\* reasoning_prompt + message
Compose(prompt, text) == prompt \o text

\* The content of the user entry that closes the message list: chat_gui.py
\* 216-220 and 340-344, chat_app_vllm.py 89-93, openai_chat.py 123-125.
UserContent(r) ==
    IF r.reasoning /\ (r.be = "openai" => Strip(r.msg) # << >>)
    THEN Compose(ReasoningPrompt(r.be, r.mode), r.msg)
    ELSE r.msg

\* _build_context: "\n".join of "User: ..." and "Assistant: ..." lines.
RECURSIVE BuildContext(_)
BuildContext(h) ==
    IF h = << >> THEN << >>
    ELSE LET line == <<IF Head(h).role = "user" THEN "User: " ELSE "Assistant: ">>
                     \o Head(h).content
         IN IF Tail(h) = << >> THEN line ELSE line \o <<"\n">> \o BuildContext(Tail(h))

\* The prompt built from the history without its last entry.
PromptOfEarlierHistory(r, h) ==
    IF r.reasoning
    THEN Compose(ReasoningPrompt(r.be, r.mode), r.msg)
    ELSE BuildContext(SubSeq(h, 1, Len(h) - 1))

\* The prompt of the raw-generate request (chat_gui.py 160-164 and 310-314,
\* ollama_chat.py 71-76).
Prompt(r, h) ==
    IF r.reasoning
    THEN Compose(ReasoningPrompt(r.be, r.mode), r.msg)
    ELSE BuildContext(h)

\* What is sent, h being conversation_history when the request is built: the
\* message list (chat_gui.py 209-222, chat_app_vllm.py 82-96, openai_chat.py
\* 128-129) or the prompt (chat_gui.py 160-164, ollama_chat.py 71-76).
RequestOf(r, h) ==
    CASE r.be = "vllm"     -> Append(SubSeq(h, 1, Len(h) - 1), Msg("user", UserContent(r)))
      [] r.be = "vllm_cli" -> Append(h, Msg("user", UserContent(r)))
      [] r.be = "openai"   -> Append(h, Msg("user", UserContent(r)))
      [] OTHER             -> Prompt(r, h)

-----------------------------------------------------------------------------
\* LLMGUIChat.send_message_stream with _stream_ollama and _stream_vllm
\* (chat_gui.py 122-268), and OpenAIChat.send_message with
\* _send_streaming_message (openai_chat.py 119-183).  An event is one yield of
\* the generator: k is read off the status string, c is the content of the
\* assistant bubble history[-1] at that yield.  For the CLIs (OpenAIChat, and
\* OllamaChat and VLLMChat, whose send_message and _send_streaming_message
\* follow the same lines: ollama_chat.py 65-131, chat_app_vllm.py 98-169) an
\* event is one print (c the fragment) and the returned string.

SetCall(c, r) == calls' = [calls EXCEPT ![c] = r]

Yield(r, k, content, e) == Append(r.events, Event(k, content, e))

\* Lines 125-140 of chat_gui.py, up to the request being sent; for the CLI,
\* lines 119-164 of openai_chat.py.
BaseBegin(c) ==
    LET r == calls[c] IN
    /\ r.pc = "base"
    /\ IF r.be = "openai"
       THEN /\ SetCall(c, [r EXCEPT !.pc = "post"])
            /\ UNCHANGED <<conversation_history, backend>>
       ELSE IF ~IsCli(r.be) /\ Strip(r.msg) = << >>
       THEN /\ SetCall(c, [r EXCEPT !.pc = AfterBase(r),
                                    !.events = Yield(r, "error", << >>, "blank")])
            /\ UNCHANGED <<conversation_history, backend>>
       ELSE /\ backend' = IF IsCli(r.be) THEN backend ELSE r.be
            /\ conversation_history' = Append(conversation_history, Msg("user", r.msg))
            /\ SetCall(c, [r EXCEPT !.pc = "post"])
    /\ UNCHANGED <<current_session_id, session_name, loaded, chat_sessions, chat_messages, txn, raced, exchanges>>

\* Handlers that leave the invocation without a word to the caller.
RaisedSilently(r, e) == [r EXCEPT !.pc = "done"]

\* The exception handlers of send_message_stream (chat_gui.py 148-155) and of
\* _send_streaming_message (openai_chat.py 181-183).
Raised(r, e) ==
    IF r.be = "openai"
    THEN [r EXCEPT !.pc = "done", !.events = Yield(r, "error", << >>, "api")]
    ELSE [r EXCEPT !.pc = AfterBase(r), !.events = Yield(r, "error", ErrorContent(e), e)]

\* requests.post returns or raises (chat_gui.py 167-182, 225-242, 317-328,
\* 349-362); client.chat.completions.create returns or raises
\* (openai_chat.py 164).
Post(c) ==
    LET r == calls[c] IN
    /\ r.pc = "post"
    /\ \E outcome \in {"ok", "http", "conn"} :
       \E resp \in IF outcome = "http" THEN Responses ELSE {NoResponse} :
         LET q == [r EXCEPT !.status = outcome, !.resp = resp,
                            !.req = RequestOf(r, conversation_history)] IN
         CASE outcome = "conn" -> SetCall(c, Raised(q, "conn"))
           [] outcome = "http" ->
                IF r.be = "openai"
                THEN SetCall(c, Raised(q, "http"))
                ELSE SetCall(c, [q EXCEPT !.pc = NonOkNext(r),
                                          !.events = Yield(r, "error", HttpError(q), "http")])
           [] OTHER -> SetCall(c, [q EXCEPT !.pc = IF r.stream THEN "stream" ELSE "body"])
    /\ UNCHANGED <<conversation_history, current_session_id, session_name, loaded, backend, chat_sessions,
                   chat_messages, txn, raced, exchanges>>

\* The code after the loop: chat_gui.py 202-204 and 266-268,
\* openai_chat.py 173-179.
Finished(r) ==
    [r EXCEPT !.pc = IF r.be = "openai" THEN "done" ELSE AfterBase(r),
              !.events = Yield(r, "done", r.acc, ""),
              !.pend = FALSE]

HistoryAfterFinish(r) ==
    IF r.be = "openai"
    THEN conversation_history \o <<Msg("user", Last(r.req).content), Msg("assistant", r.acc)>>
    ELSE Append(conversation_history, Msg("assistant", r.acc))

\* What response.iter_lines() (the SDK iterator) gives next: a frame, the end
\* of the body, or the exception of a dropped connection.
EndOfBody == Frame("eof", << >>)
Dropped == Frame("drop", << >>)

\* One pass of the loop over response.iter_lines() (chat_gui.py 186-200,
\* 246-264) or over the SDK's chunks (openai_chat.py 167-171), up to the next
\* yield or the end of the generator.  F is the set of frames the backend may
\* send and n the most frames of one body.
ReadFrame(c, F, n) ==
    LET r == calls[c] IN
    /\ r.pc = "stream"
    /\ IF r.pend
       THEN \* resumed after the yield of a frame with done=true: `break`
            /\ SetCall(c, Finished([r EXCEPT !.left = "break"]))
            /\ conversation_history' = HistoryAfterFinish(r)
       ELSE \E f \in (IF Len(r.fed) < n THEN F ELSE {}) \cup {EndOfBody, Dropped} :
            LET s == StepOf(r.be, f)
                q == [r EXCEPT !.fed = Append(r.fed, f)]
                a == Accumulate(r.acc, f.t)
            IN CASE f = EndOfBody ->
                      /\ SetCall(c, Finished([r EXCEPT !.left = "eof"]))
                      /\ conversation_history' = HistoryAfterFinish(r)
                 [] f = Dropped ->
                      /\ SetCall(c, Raised([r EXCEPT !.left = "drop"], "conn"))
                      /\ UNCHANGED conversation_history
                 [] s = "skip" ->
                      /\ SetCall(c, q)
                      /\ UNCHANGED conversation_history
                 [] s \in {"emit", "emit_break"} ->
                      /\ SetCall(c, [q EXCEPT !.acc = a,
                                     !.events = Yield(r, "delta", IF IsCli(r.be) THEN f.t ELSE a, ""),
                                     !.pend = (s = "emit_break")])
                      /\ UNCHANGED conversation_history
                 [] s = "break" ->
                      /\ SetCall(c, Finished([q EXCEPT !.left = "break"]))
                      /\ conversation_history' = HistoryAfterFinish(r)
                 [] OTHER ->
                      /\ SetCall(c, Raised([q EXCEPT !.left = "raise"], "unexp"))
                      /\ UNCHANGED conversation_history
    /\ UNCHANGED <<current_session_id, session_name, loaded, backend, chat_sessions, chat_messages, txn,
                   raced, exchanges>>

\* self.conversation_history.append({"role": "assistant", "content":
\* ai_response}) (chat_gui.py 292).
HistoryAfterBody(h, t) == Append(h, Msg("assistant", t))

\* LLMGUIChat.send_message_non_stream after requests.post returned 200
\* (chat_gui.py 330, 364-367, 291-298): response.json() gives the reply, or
\* raises on a body that is not JSON.  T is the set of replies.
ReadBody(c, T) ==
    LET r == calls[c] IN
    /\ r.pc = "body"
    /\ \/ \E t \in T :
            /\ SetCall(c, [r EXCEPT !.pc = AfterBase(r), !.acc = t, !.left = "eof",
                                    !.events = Yield(r, "done", t, "")])
            /\ conversation_history' = HistoryAfterBody(conversation_history, t)
       \/ /\ SetCall(c, Raised([r EXCEPT !.left = "raise"], "unexp"))
          /\ UNCHANGED conversation_history
    /\ UNCHANGED <<current_session_id, session_name, loaded, backend, chat_sessions, chat_messages, txn,
                   raced, exchanges>>

-----------------------------------------------------------------------------
\* DatabaseLLMGUIChat.send_message_stream (web_chat_db.py 140-168) around the
\* base generator.

\* Lines 143-150: the settings, and the test of current_session_id.  At most
\* n invocations are begun.
DbBegin(c, n) ==
    /\ calls[c].pc = "idle"
    /\ exchanges < n
    /\ exchanges' = exchanges + 1
    /\ \E m \in Messages, b \in {"ollama", "vllm"} :
         /\ backend' = b
         /\ SetCall(c, [IdleCall EXCEPT
                           !.pc = IF current_session_id = 0 THEN "create" ELSE "user_sel",
                           !.db = TRUE, !.be = b, !.msg = m,
                           !.began_busy = \E o \in Calls \ {c} : InFlight(o)])
    /\ UNCHANGED <<conversation_history, current_session_id, session_name, loaded, chat_sessions,
                   chat_messages, txn, raced>>

\* start_new_session (44-56) with create_session (chat_database.py 108-123).
CreateSession(c) ==
    LET r == calls[c]
        sid == Len(chat_sessions) + 1
    IN
    /\ r.pc = "create"
    /\ chat_sessions' = Append(chat_sessions, SessionRow(r.be))
    /\ current_session_id' = sid
    /\ session_name' = SessionName(r.be)
    /\ UNCHANGED loaded
    /\ conversation_history' = << >>
    /\ SetCall(c, [r EXCEPT !.pc = "user_sel", !.created = sid])
    /\ UNCHANGED <<backend, chat_messages, txn, raced, exchanges>>

\* add_message_to_db("user", message) (58-64, 154) up to the SELECT.
UserSelect(c) ==
    LET r == calls[c] IN
    /\ r.pc = "user_sel"
    /\ IF current_session_id # 0
       THEN /\ TxnSelect(c, current_session_id, "user", r.msg, "none")
            /\ SetCall(c, [r EXCEPT !.pc = "user_ins"])
       ELSE /\ SetCall(c, [r EXCEPT !.pc = "base"])
            /\ UNCHANGED <<txn, raced>>
    /\ UNCHANGED <<conversation_history, current_session_id, session_name, loaded, backend, chat_sessions,
                   chat_messages, exchanges>>

\* The INSERT and the commit of an add_message the invocation has open.
DbInsert(c, from, to) ==
    LET r == calls[c] IN
    /\ r.pc = from
    /\ TxnInsert(c)
    /\ SetCall(c, [r EXCEPT !.pc = to, !.wrote = Append(r.wrote, RowOf(txn[c]))])
    /\ UNCHANGED <<conversation_history, current_session_id, session_name, loaded, backend, chat_sessions,
                   raced, exchanges>>

UserInsert(c) == DbInsert(c, "user_ins", "base")

\* The role the wrapper looks for in conversation_history[-1] (line 161).
PersistRole == "assistant"

\* The keys of the metadata dict of a row: `metadata or {}` for the user
\* Message, the dict of lines 163-168 for the assistant Message.
MetadataKeys(meta) ==
    IF meta = "none" THEN {}
    ELSE {"backend", "model", "reasoning_enabled", "reasoning_mode"}

\* Lines 160-168: the test of conversation_history[-1], and add_message_to_db
\* up to the SELECT.
AsstSelect(c) ==
    LET r == calls[c]
        n == Len(conversation_history)
    IN
    /\ r.pc = "asst_sel"
    /\ IF n > 0 /\ conversation_history[n].role = PersistRole /\ current_session_id # 0
       THEN /\ TxnSelect(c, current_session_id, "assistant",
                         conversation_history[n].content, r.be)
            /\ SetCall(c, [r EXCEPT !.pc = "asst_ins"])
       ELSE /\ SetCall(c, [r EXCEPT !.pc = "done"])
            /\ UNCHANGED <<txn, raced>>
    /\ UNCHANGED <<conversation_history, current_session_id, session_name, loaded, backend, chat_sessions,
                   chat_messages, exchanges>>

AsstInsert(c) == DbInsert(c, "asst_ins", "done")

\* create_session raises (psycopg2.connect, the INSERT or the commit of
\* get_connection, chat_database.py 34-48 and 114-123): start_new_session
\* (web_chat_db.py 46-47) and send_message_stream (150-151) have no handler,
\* so the generator ends with the exception before its first yield and
\* current_session_id is not assigned.
CreateSessionFails(c) ==
    LET r == calls[c] IN
    /\ r.pc = "create"
    /\ SetCall(c, [r EXCEPT !.pc = "done", !.left = "store"])
    /\ UNCHANGED <<conversation_history, current_session_id, session_name, loaded, backend, chat_sessions,
                   chat_messages, txn, raced, exchanges>>

\* add_message raises at its INSERT or at the commit: get_connection rolls
\* back, and add_message_to_db (web_chat_db.py 61-64) catches the exception
\* and prints "Failed to save message to database".
AddMessageFails(c) ==
    LET r == calls[c] IN
    /\ r.pc \in {"user_ins", "asst_ins"}
    /\ txn' = [txn EXCEPT ![c] = NoTxn]
    /\ SetCall(c, [r EXCEPT !.pc = IF r.pc = "user_ins" THEN "base" ELSE "done",
                            !.lost = Append(r.lost, RowOf(txn[c])),
                            !.console = Append(r.console, RowOf(txn[c]))])
    /\ UNCHANGED <<conversation_history, current_session_id, session_name, loaded, backend, chat_sessions,
                   chat_messages, raced, exchanges>>

\* The generator is exhausted and Gradio's listener is free again.
Return(c, n) ==
    /\ calls[c].pc = "done"
    /\ exchanges < n
    /\ SetCall(c, IdleCall)
    /\ UNCHANGED <<conversation_history, current_session_id, session_name, loaded, backend, chat_sessions,
                   chat_messages, txn, raced, exchanges>>

\* get_conversation_history (chat_database.py 150-170): the rows of the
\* session, ORDER BY message_order ASC.
RECURSIVE OrderedFrom(_, _, _)
OrderedFrom(rows, k, top) ==
    IF k > top THEN << >>
    ELSE SelectSeq(rows, LAMBDA m : m.message_order = k) \o OrderedFrom(rows, k + 1, top)

ConversationHistoryOf(sid) ==
    OrderedFrom(SessionRows(sid), 1, MaxOrderOf(chat_messages, sid))

\* dict_history (web_chat_db.py 124-129).
DictHistory(rows) == [i \in 1..Len(rows) |-> Msg(rows[i].role, rows[i].content)]

\* current_session_id = session_id
AfterClearKept(sid) == sid

\* self.current_session_id = None (web_chat_db.py 203)
AfterClear(sid) == 0

\* No invocation of the listener is under way.
BetweenMessages == calls[1].pc \in {"idle", "done"}

\* DatabaseLLMGUIChat.clear_conversation (201-206) with
\* LLMGUIChat.clear_conversation (chat_gui.py 369-372).
ClearConversation ==
    /\ current_session_id' = AfterClear(current_session_id)
    /\ session_name' = NoName
    /\ conversation_history' = << >>
    /\ UNCHANGED <<loaded, backend, chat_sessions, chat_messages, calls, txn, raced,
                   exchanges>>

\* What load_session_history was given and the status it has returned.
NotLoaded == [session_id |-> 0, status |-> ""]

\* self.conversation_history = []
NotFoundHistoryCleared(h) == << >>

\* `return [], "❌ Session not found"` (line 120): nothing is assigned.
NotFoundHistory(h) == h

\* DatabaseLLMGUIChat.load_session_history (111-138) with get_session_info
\* (chat_database.py 172-193) and get_conversation_history.
LoadSessionHistory(session_id) ==
    /\ IF session_id \in 1..Len(chat_sessions)
       THEN LET dict_history == DictHistory(ConversationHistoryOf(session_id)) IN
            /\ conversation_history' = dict_history
            /\ current_session_id' = session_id
            /\ session_name' = chat_sessions[session_id].session_name
            /\ loaded' = [session_id |-> session_id, status |-> "loaded"]
       ELSE /\ conversation_history' = NotFoundHistory(conversation_history)
            /\ loaded' = [session_id |-> session_id, status |-> "not_found"]
            /\ UNCHANGED <<current_session_id, session_name>>
    /\ UNCHANGED <<backend, chat_sessions, chat_messages, calls, txn, raced, exchanges>>

\* The caller stops consuming the stream: Gradio closes the generator while it
\* is suspended at the yield of line 158 after a Delta event.  GeneratorExit is
\* raised there and in the base generator; it is not an Exception, so no
\* handler of chat_gui.py 148-155 runs and lines 160-168 are not reached.
Cancel(c) ==
    LET r == calls[c] IN
    /\ r.pc = "stream" /\ r.db
    /\ EndsWith(r, "delta")
    /\ SetCall(c, [r EXCEPT !.pc = "done", !.left = "cancel", !.pend = FALSE])
    /\ UNCHANGED <<conversation_history, current_session_id, session_name, loaded, backend, chat_sessions,
                   chat_messages, txn, raced, exchanges>>

\* The frames of the backends of the exchanges: text frames and the done frame.
ExchangeFrames(b) ==
    {f \in FramesOf(b, ExchangeTokens) : f.k \in {"delta", "done"}}

Init ==
    /\ conversation_history = << >>
    /\ current_session_id = 0
    /\ session_name = NoName
    /\ loaded = NotLoaded
    /\ backend = "ollama"
    /\ chat_sessions = << >>
    /\ chat_messages = << >>
    /\ calls = [c \in Calls |-> IdleCall]
    /\ txn = [c \in Calls |-> NoTxn]
    /\ raced = {}
    /\ exchanges = 0

\* Spec: the invocations of one listener, one after the other.
Next ==
    \/ DbBegin(1, MaxExchanges)
    \/ CreateSession(1)
    \/ UserSelect(1)
    \/ UserInsert(1)
    \/ BaseBegin(1)
    \/ Post(1)
    \/ ReadFrame(1, ExchangeFrames(calls[1].be), MaxExchangeFrames)
    \/ AsstSelect(1)
    \/ AsstInsert(1)
    \/ Return(1, MaxExchanges)

Spec == Init /\ [][Next]_vars

\* SpecCancel: the invocations of one listener, whose consumer may stop.
NextCancel ==
    \/ Next
    \/ Cancel(1)

SpecCancel == Init /\ [][NextCancel]_vars

\* The frames of the backends in SpecSession: one text frame and the done
\* frame.
SessionFrames(b) == {f \in ExchangeFrames(b) : f.t \in {<< >>, <<"a">>}}

\* SpecSession: the invocations of one listener, with clear_conversation and
\* load_session_history between them.  The ids a load is given are those of
\* the sessions and one id that is in no row.
NextSession ==
    \/ DbBegin(1, MaxSessionExchanges)
    \/ CreateSession(1)
    \/ UserSelect(1)
    \/ UserInsert(1)
    \/ BaseBegin(1)
    \/ Post(1)
    \/ ReadFrame(1, SessionFrames(calls[1].be), MaxSessionFrames)
    \/ AsstSelect(1)
    \/ AsstInsert(1)
    \/ Return(1, MaxSessionExchanges)
    \/ BetweenMessages /\ ClearConversation
    \/ BetweenMessages /\ \E session_id \in 1..(Len(chat_sessions) + 1) :
                             LoadSessionHistory(session_id)

SpecSession == Init /\ [][NextSession]_vars

\* handle_new_session (web_chat_db.py 373-376): start_new_session("ollama",
\* ...) with create_session.  The table holds at most n sessions.
StartNewSession(n) ==
    /\ Len(chat_sessions) < n
    /\ chat_sessions' = Append(chat_sessions, SessionRow("ollama"))
    /\ current_session_id' = Len(chat_sessions) + 1
    /\ session_name' = SessionName("ollama")
    /\ conversation_history' = << >>
    /\ UNCHANGED <<loaded, backend, calls, chat_messages, txn, raced, exchanges>>

\* SpecShared: an invocation of one listener, while the listeners of the
\* other buttons (clear_btn, new_session_btn, load_session_btn: web_chat_db.py
\* 417-444) run their handlers on the same chat instance at any moment.
NextShared ==
    \/ DbBegin(1, MaxSharedExchanges)
    \/ CreateSession(1)
    \/ UserSelect(1)
    \/ UserInsert(1)
    \/ BaseBegin(1)
    \/ Post(1)
    \/ ReadFrame(1, SessionFrames(calls[1].be), MaxSharedFrames)
    \/ AsstSelect(1)
    \/ AsstInsert(1)
    \/ ClearConversation
    \/ StartNewSession(MaxSharedSessions)
    \/ \E session_id \in 1..Len(chat_sessions) : LoadSessionHistory(session_id)

SpecShared == Init /\ [][NextShared]_vars

\* SpecFail: the invocations of one listener against a store whose writes may
\* fail.
NextFail ==
    \/ DbBegin(1, MaxFailExchanges)
    \/ CreateSession(1)
    \/ CreateSessionFails(1)
    \/ UserSelect(1)
    \/ UserInsert(1)
    \/ BaseBegin(1)
    \/ Post(1)
    \/ ReadFrame(1, SessionFrames(calls[1].be), MaxFailFrames)
    \/ AsstSelect(1)
    \/ AsstInsert(1)
    \/ AddMessageFails(1)
    \/ Return(1, MaxFailExchanges)

SpecFail == Init /\ [][NextFail]_vars

\* SpecPair: after some invocations, send_message_stream is run to its end;
\* then the chat instance and the store are put back as they were and
\* send_message_non_stream (web_chat_db.py 170-199, chat_gui.py 270-305) is
\* run with the same arguments.  Slot 2 keeps the record of the first run.

\* The frames of a streamed body, one of them with a null text field, and
\* the replies of a body that is not streamed: the same texts, and null.
PairFrames(b) == SessionFrames(b) \cup {Frame("nulltext", << >>)}
PairReplies == {<< >>, None} \cup {f.t : f \in SessionFrames("ollama")}

\* handle_send with streaming=True (web_chat_db.py 358-359), as DbBegin.
PairBegin ==
    /\ calls[1].pc = "idle" /\ calls[2].pc = "idle"
    /\ \E m \in Messages, b \in {"ollama", "vllm"} :
         /\ backend' = b
         /\ calls' = [calls EXCEPT
                         ![1] = [IdleCall EXCEPT
                                   !.pc = IF current_session_id = 0 THEN "create"
                                          ELSE "user_sel",
                                   !.db = TRUE, !.be = b, !.msg = m,
                                   !.before = conversation_history],
                         ![2] = [IdleCall EXCEPT !.pc = "pair"]]
    /\ UNCHANGED <<conversation_history, current_session_id, session_name, loaded, chat_sessions,
                   chat_messages, txn, raced, exchanges>>

\* The first run has ended: the state it began in is restored (the rows it
\* wrote and the session it created are taken away) and handle_send with
\* streaming=False (360-362) is called with the same arguments.
Replay ==
    LET r == calls[1]
        sid == IF r.created # 0 THEN 0 ELSE current_session_id
    IN
    /\ r.pc = "done" /\ calls[2].pc = "pair"
    /\ conversation_history' = r.before
    /\ current_session_id' = sid
    /\ session_name' = IF r.created # 0 THEN NoName ELSE session_name
    /\ chat_sessions' = IF r.created # 0
                        THEN SubSeq(chat_sessions, 1, Len(chat_sessions) - 1)
                        ELSE chat_sessions
    /\ chat_messages' = SubSeq(chat_messages, 1, Len(chat_messages) - Len(r.wrote))
    /\ calls' = [calls EXCEPT
                    ![1] = [IdleCall EXCEPT
                              !.pc = IF sid = 0 THEN "create" ELSE "user_sel",
                              !.db = TRUE, !.be = r.be, !.msg = r.msg, !.stream = FALSE,
                              !.before = r.before],
                    ![2] = [r EXCEPT !.pc = "kept", !.after = conversation_history]]
    /\ UNCHANGED <<loaded, backend, txn, raced, exchanges>>

NextPair ==
    \/ calls[2].pc = "idle" /\ DbBegin(1, MaxPairExchanges)
    \/ calls[2].pc = "idle" /\ Return(1, MaxPairExchanges + 1)
    \/ PairBegin
    \/ Replay
    \/ CreateSession(1)
    \/ UserSelect(1)
    \/ UserInsert(1)
    \/ BaseBegin(1)
    \/ Post(1)
    \/ ReadFrame(1, PairFrames(calls[1].be), MaxPairFrames)
    \/ ReadBody(1, PairReplies)
    \/ AsstSelect(1)
    \/ AsstInsert(1)
    \/ txn[1].content = None /\ AddMessageFails(1)

SpecPair == Init /\ [][NextPair]_vars

\* SpecRace: the invocations of the two listeners, interleaved.
NextRace ==
    \E c \in Calls :
        \/ DbBegin(c, MaxRaceExchanges)
        \/ CreateSession(c)
        \/ UserSelect(c)
        \/ UserInsert(c)
        \/ BaseBegin(c)
        \/ Post(c)
        \/ ReadFrame(c, ExchangeFrames(calls[c].be), MaxRaceFrames)
        \/ AsstSelect(c)
        \/ AsstInsert(c)
        \/ Return(c, MaxRaceExchanges)

SpecRace == Init /\ [][NextRace]_vars

\* SpecStream: one exchange of a chat object that has no store, an LLMGUIChat
\* (ollama, vllm), a VLLMChat (vllm_cli) or an OpenAIChat (openai), with every
\* frame of its backend.
InitStream ==
    /\ conversation_history = << >>
    /\ current_session_id = 0
    /\ session_name = NoName
    /\ loaded = NotLoaded
    /\ backend = "ollama"
    /\ chat_sessions = << >>
    /\ chat_messages = << >>
    /\ \E m \in Messages, b \in {"ollama", "vllm", "vllm_cli", "openai"} :
         calls = [c \in Calls |->
                    IF c = 1 THEN [IdleCall EXCEPT !.pc = "base", !.be = b, !.msg = m]
                    ELSE IdleCall]
    /\ txn = [c \in Calls |-> NoTxn]
    /\ raced = {}
    /\ exchanges = 1

NextStream ==
    \/ BaseBegin(1)
    \/ Post(1)
    \/ ReadFrame(1, FramesOf(calls[1].be, Tokens), MaxFrames)

SpecStream == InitStream /\ [][NextStream]_vars

\* SpecChat: the calls of one chat object without a store, one after the
\* other, under any reasoning settings: send_message_stream of an LLMGUIChat
\* (backend chosen at each call) or send_message of a CLI chat.

\* show_reasoning and reasoning_mode: arguments of the Gradio handler, fields
\* the commands of the CLIs set between two messages.
Settings ==
    {[reasoning |-> FALSE, mode |-> "simple"]}
    \cup {[reasoning |-> TRUE, mode |-> m] : m \in Modes}

\* The next call of the object of slot c; at most n calls are made.
ChatBegin(c, n) ==
    LET r == calls[c] IN
    /\ r.pc = "idle"
    /\ exchanges < n
    /\ exchanges' = exchanges + 1
    /\ \E m \in Messages, st \in Settings,
          b \in (IF IsCli(r.be) THEN {r.be} ELSE {"ollama", "vllm"}) :
         SetCall(c, [IdleCall EXCEPT !.pc = "base", !.be = b, !.msg = m,
                                     !.reasoning = st.reasoning, !.mode = st.mode,
                                     !.before = conversation_history])
    /\ UNCHANGED <<conversation_history, current_session_id, session_name, loaded, backend, chat_sessions,
                   chat_messages, txn, raced>>

\* ai_response += " [Response interrupted]"
InterruptedResponse(acc) == acc \o <<" [Response interrupted]">>

\* Ctrl-C while a CLI reads the stream.  OllamaChat and VLLMChat catch
\* KeyboardInterrupt around the loop (ollama_chat.py 123-131, chat_app_vllm.py
\* 161-169) and go on to the code after it; in OpenAIChat it passes through
\* `except Exception` (openai_chat.py 181) to the chat loop.
Interrupt(c) ==
    LET r == calls[c]
        a == InterruptedResponse(r.acc)
    IN
    /\ r.pc = "stream" /\ IsCli(r.be)
    /\ IF r.be = "openai"
       THEN /\ SetCall(c, [r EXCEPT !.pc = "done", !.left = "interrupt"])
            /\ UNCHANGED conversation_history
       ELSE /\ SetCall(c, [r EXCEPT !.pc = "done", !.left = "interrupt", !.acc = a,
                                    !.pend = FALSE, !.events = Yield(r, "done", a, "")])
            /\ conversation_history' = Append(conversation_history, Msg("assistant", a))
    /\ UNCHANGED <<current_session_id, session_name, loaded, backend, chat_sessions, chat_messages, txn,
                   raced, exchanges>>

\* The call has returned and the object takes the next message.
ChatReturn(c, n) ==
    /\ calls[c].pc = "done"
    /\ exchanges < n
    /\ SetCall(c, [IdleCall EXCEPT !.be = calls[c].be])
    /\ UNCHANGED <<conversation_history, current_session_id, session_name, loaded, backend, chat_sessions,
                   chat_messages, txn, raced, exchanges>>

InitChat ==
    /\ conversation_history = << >>
    /\ current_session_id = 0
    /\ session_name = NoName
    /\ loaded = NotLoaded
    /\ backend = "ollama"
    /\ chat_sessions = << >>
    /\ chat_messages = << >>
    /\ \E b \in {"ollama", "ollama_cli", "vllm_cli", "openai"} :
         calls = [c \in Calls |-> IF c = 1 THEN [IdleCall EXCEPT !.be = b] ELSE IdleCall]
    /\ txn = [c \in Calls |-> NoTxn]
    /\ raced = {}
    /\ exchanges = 0

NextChat ==
    \/ ChatBegin(1, MaxChatExchanges)
    \/ BaseBegin(1)
    \/ Post(1)
    \/ ReadFrame(1, ExchangeFrames(calls[1].be), MaxChatFrames)
    \/ Interrupt(1)
    \/ ChatReturn(1, MaxChatExchanges)

SpecChat == InitChat /\ [][NextChat]_vars

\* SpecLive: one exchange of an LLMGUIChat, streamed or not, with a backend
\* that answers every request and ends every body, and a consumer that takes
\* every event: each step of the handler that can be taken is taken.
InitLive ==
    /\ conversation_history = << >>
    /\ current_session_id = 0
    /\ session_name = NoName
    /\ loaded = NotLoaded
    /\ backend = "ollama"
    /\ chat_sessions = << >>
    /\ chat_messages = << >>
    /\ \E m \in Messages, b \in {"ollama", "vllm"}, st \in BOOLEAN :
         calls = [c \in Calls |->
                    IF c = 1 THEN [IdleCall EXCEPT !.pc = "base", !.be = b, !.msg = m,
                                                   !.stream = st]
                    ELSE IdleCall]
    /\ txn = [c \in Calls |-> NoTxn]
    /\ raced = {}
    /\ exchanges = 1

NextLive ==
    \/ BaseBegin(1)
    \/ Post(1)
    \/ ReadFrame(1, FramesOf(calls[1].be, Tokens), MaxFrames)
    \/ ReadBody(1, Tokens)

SpecLive == InitLive /\ [][NextLive]_vars /\ WF_vars(NextLive)

\* SpecStore: clients of ChatDatabaseManager, each call in its own connection.
StoreCreateSession ==
    /\ Len(chat_sessions) < MaxSessions
    /\ chat_sessions' = Append(chat_sessions, SessionRow("ollama"))
    /\ UNCHANGED <<conversation_history, current_session_id, session_name, loaded, backend, chat_messages,
                   calls, txn, raced, exchanges>>

OpenTxns == {c \in Calls : txn[c].open}

StoreAddSelect(c) ==
    /\ ~txn[c].open
    /\ Len(chat_messages) + Cardinality(OpenTxns) < MaxMessages
    /\ \E sid \in 1..Len(chat_sessions), role \in {"user", "assistant"} :
         TxnSelect(c, sid, role, <<"m">>, "none")
    /\ UNCHANGED <<conversation_history, current_session_id, session_name, loaded, backend, chat_sessions,
                   chat_messages, calls, exchanges>>

StoreAddInsert(c) ==
    /\ txn[c].open
    /\ TxnInsert(c)
    /\ UNCHANGED <<conversation_history, current_session_id, session_name, loaded, backend, chat_sessions,
                   calls, raced, exchanges>>

NextStore ==
    \/ StoreCreateSession
    \/ \E c \in Calls : StoreAddSelect(c) \/ StoreAddInsert(c)

SpecStore == Init /\ [][NextStore]_vars

-----------------------------------------------------------------------------
\* Properties.

IsTerminal(e) == e.k \in {"done", "error"}
IsDelta(e) == e.k = "delta"

\* The frames that carry a text fragment, and their fragments in order.
HasText(f) == f.k \in {"delta", "deltadone"}
TextsOf(fed) == [i \in 1..Len(SelectSeq(fed, HasText)) |-> SelectSeq(fed, HasText)[i].t]

\* The Delta events a caller sees for the fragments ts: the GUI shows the text
\* so far at each one, the CLI prints the fragment.
DeltaEventsOf(b, ts) ==
    [i \in 1..Len(ts) |->
        Event("delta", IF IsCli(b) THEN ts[i] ELSE Concat(SubSeq(ts, 1, i)), "")]

\* C1: the events of a send_message_stream call (Ollama or vLLM backend, any
\* response) are Delta events followed by one terminal event: a terminal event
\* is the last event yielded, and the call has ended exactly when one was.
C1_WellFormedStream ==
    LET r == calls[1] IN
    r.be \in {"ollama", "vllm"} =>
        /\ \A i \in 1..Len(r.events) : IsTerminal(r.events[i]) => i = Len(r.events)
        /\ (r.pc = "done") <=> (r.events # << >> /\ IsTerminal(Last(r.events)))

C1_Witness ==
    LET r == calls[1] IN
    /\ r.pc = "done" /\ r.be = "vllm"
    /\ Len(r.events) = 3
    /\ IsDelta(r.events[1]) /\ IsDelta(r.events[2]) /\ r.events[3].k = "error"

\* A stream of N frames that carry text followed by a terminal frame: for
\* Ollama the terminal frame is the one with done=true (it may carry the last
\* fragment itself), for SSE it is data: [DONE], for the SDK iterator it is the
\* chunk without content that ends the iteration.
CleanStream(r) ==
    LET n == Len(r.fed) IN
    /\ r.pc = "done" /\ r.status = "ok" /\ n > 0
    /\ \A i \in 1..(n - 1) : r.fed[i].k = "delta"
    /\ CASE r.be = "ollama" -> r.fed[n].k \in {"done", "deltadone"} /\ r.left = "break"
         [] r.be = "vllm"   -> r.fed[n].k = "done" /\ r.left = "break"
         [] r.be = "openai" -> r.fed[n].k = "noop" /\ r.left = "eof"
         [] OTHER           -> FALSE

Malformed(f) == f.k \in {"badutf8", "badjson", "nonobject", "noprefix"}

C3_MalformedSkipped ==
    LET r == calls[1] IN
    (r.be \in {"ollama", "vllm"} /\ \E i \in 1..Len(r.fed) : Malformed(r.fed[i])) =>
        /\ r.left # "raise"
        /\ ~EndsWith(r, "error") \/ r.left = "drop"
        /\ SelectSeq(r.events, IsDelta) = DeltaEventsOf(r.be, TextsOf(r.fed))

\* C4: when the connection drops after K >= 1 Delta events the caller got
\* those K Delta events and one Error event, and the assistant Message
\* persisted for the exchange holds the K fragments concatenated.
C4_PartialPersisted ==
    LET r == calls[1]
        ts == TextsOf(r.fed)
    IN (r.pc = "done" /\ r.left = "drop" /\ ts # << >>) =>
          /\ SubSeq(r.events, 1, Len(r.events) - 1) = DeltaEventsOf(r.be, ts)
          /\ EndsWith(r, "error")
          /\ \E i \in 1..Len(r.wrote) :
                r.wrote[i].role = "assistant" /\ r.wrote[i].content = Concat(ts)

\* C5: an invocation begun while another one is Sending or Streaming is
\* rejected: it sends no request, persists no Message and leaves the
\* in-memory history alone.
C5_SecondContinueRejected ==
    \A c \in Calls :
        calls[c].began_busy =>
            /\ calls[c].wrote = << >>
            /\ calls[c].status = ""
            /\ calls[c].pc \notin {"post", "stream"}

\* C6: the message_order values of a session on which no two add_message
\* calls ran at once are 1..n in commit order, whatever ran at the same time
\* on other sessions.
C6_OrdersGapFree ==
    \A sid \in 1..Len(chat_sessions) :
        sid \notin raced =>
            \A i \in 1..Len(SessionRows(sid)) : SessionRows(sid)[i].message_order = i

C6_Witness ==
    /\ raced = {}
    /\ txn[1].open /\ txn[2].open /\ txn[1].session_id # txn[2].session_id
    /\ Len(SessionRows(1)) >= 1 /\ Len(SessionRows(2)) >= 2
    /\ txn[1].message_order = Len(SessionRows(txn[1].session_id)) + 1
    /\ txn[2].message_order = Len(SessionRows(txn[2].session_id)) + 1

\* C7: no two rows of a session carry the same message_order, also when two
\* add_message calls run at once on that session.
C7_NoDuplicateOrder ==
    \A i, j \in 1..Len(chat_messages) :
        (i # j /\ chat_messages[i].session_id = chat_messages[j].session_id)
            => chat_messages[i].message_order # chat_messages[j].message_order

\* C8: when the caller has been given the completion event, the assistant
\* Message of the exchange is in the store.
C8_PersistThenAcknowledge ==
    LET r == calls[1] IN
    EndsWith(r, "done") =>
        \E i \in 1..Len(r.wrote) :
            r.wrote[i].role = "assistant" /\ r.wrote[i].content = r.acc

\* C9: an invocation that completed has persisted two Messages, user then
\* assistant; one that failed before any byte of a response body (blank
\* input, no connection, a non-200 status) has persisted the user Message
\* only.
RolesOf(rows) == [i \in 1..Len(rows) |-> rows[i].role]

C9_TwoMessagesOrOne ==
    LET r == calls[1] IN
    r.pc = "done" =>
        /\ EndsWith(r, "done") => RolesOf(r.wrote) = <<"user", "assistant">>
        /\ (EndsWith(r, "error") /\ r.status # "ok") => RolesOf(r.wrote) = <<"user">>

\* C10: when a streamed exchange that created its session has completed, the
\* session holds exactly the user Message with the submitted text at order 1
\* and the assistant Message at order 2, whose content is the fragments of the
\* Delta events in order; the k-th Delta event showed the first k fragments.
C10_EndToEnd ==
    LET r == calls[1]
        ts == TextsOf(r.fed)
        rows == SessionRows(r.created)
    IN (r.pc = "done" /\ r.created # 0 /\ EndsWith(r, "done")) =>
          /\ SelectSeq(r.events, IsDelta) = DeltaEventsOf(r.be, ts)
          /\ Len(rows) = 2
          /\ rows[1].role = "user" /\ rows[1].content = r.msg /\ rows[1].message_order = 1
          /\ rows[2].role = "assistant" /\ rows[2].content = Concat(ts)
          /\ rows[2].message_order = 2

C10_Witness ==
    LET r == calls[1] IN
    /\ r.pc = "done" /\ r.created # 0 /\ r.be = "vllm" /\ r.left = "break"
    /\ r.msg = <<"h", "i">>
    /\ TextsOf(r.fed) = << <<"a">>, <<"b">> >>
    /\ Len(SessionRows(r.created)) = 2
    /\ SessionRows(r.created)[2].content = <<"a", "b">>

\* C11: when an invocation has ended with an Error event after the response
\* body was opened, the text accumulated so far, if there is any, is in the
\* store as an assistant Message whose metadata carries an error flag.
C11_FailedPersistsFlagged ==
    LET r == calls[1] IN
    (r.pc = "done" /\ r.status = "ok" /\ EndsWith(r, "error") /\ r.acc # << >>) =>
        \E i \in 1..Len(r.wrote) :
            /\ r.wrote[i].role = "assistant"
            /\ r.wrote[i].content = r.acc
            /\ "error" \in MetadataKeys(r.wrote[i].meta)

\* C12: when the consumer has stopped an invocation that was Sending or
\* Streaming, the invocation ended with a Cancelled signal and the text
\* accumulated so far is in the store as an assistant Message, content
\* unaltered, flagged in its metadata.
C12_CancelPersistsPartial ==
    LET r == calls[1] IN
    r.left = "cancel" =>
        /\ EndsWith(r, "cancelled")
        /\ \E i \in 1..Len(r.wrote) :
              /\ r.wrote[i].role = "assistant"
              /\ r.wrote[i].content = r.acc
              /\ "error" \in MetadataKeys(r.wrote[i].meta)

\* C13: every begun exchange of an LLMGUIChat, streamed or not, eventually
\* gives its caller a terminal signal (the completion event or an Error
\* event) and ends, when the backend and the consumer keep going.
Begun == calls[1].pc \in {"base", "post", "stream", "body"}
Signalled ==
    /\ calls[1].pc = "done"
    /\ calls[1].events # << >> /\ IsTerminal(Last(calls[1].events))

Sent(r) == r.status # ""
ChatCompletions(r) == Protocol(r.be) \in {"vllm", "openai"}

C14_ReasoningOffRequest ==
    LET r == calls[1] IN
    (Sent(r) /\ ChatCompletions(r) /\ ~r.reasoning) =>
        r.req = Append(r.before, Msg("user", r.msg))

\* The template of the mode followed by the text when reasoning is on, the
\* text when it is off.
Templated(r) ==
    IF r.reasoning THEN ReasoningPrompts[r.mode] \o r.msg ELSE r.msg

UserTurnsVerbatim(h) ==
    \A i \in 1..Len(h) : h[i].role = "user" => h[i].content \in Messages

C16_HistoryVerbatim ==
    LET r == calls[1] IN
    /\ UserTurnsVerbatim(conversation_history)
    /\ (Sent(r) /\ ChatCompletions(r)) =>
          UserTurnsVerbatim(SubSeq(r.req, 1, Len(r.req) - 1))

\* The text c holds the status code and, after it, the whole response body.
Carries(c, resp) ==
    \E i \in 1..Len(c) :
        /\ c[i] = resp.status_code
        /\ \E j \in (i + 1)..(Len(c) - Len(resp.text) + 1) :
              SubSeq(c, j, j + Len(resp.text) - 1) = resp.text

\* C17: when the backend has answered the request of an LLMGUIChat call
\* (streamed or not) with a status other than 200, the call has ended, it gave
\* no Delta event and exactly one Error event, whose message holds the status
\* code and the response body, and conversation_history got the user entry
\* and no assistant entry.
C17_NonOkSingleError ==
    LET r == calls[1] IN
    r.status = "http" =>
        /\ r.pc = "done"
        /\ Len(r.events) = 1 /\ r.events[1].k = "error"
        /\ Carries(r.events[1].c, r.resp)
        /\ conversation_history = <<Msg("user", r.msg)>>

C17_Witness ==
    LET r == calls[1] IN
    /\ r.status = "http" /\ ~r.stream /\ r.be = "ollama"
    /\ r.resp = [status_code |-> "500", text |-> <<"n", "o">>]
    /\ Len(r.events) = 1

\* An invocation that began without a current session has created the newest
\* Session row, and once its user Message is written that Message is the
\* first of the session, with order 1.
FreshSession ==
    LET r == calls[1]
        rows == SessionRows(r.created)
    IN (r.created # 0 /\ r.pc \notin {"create", "user_sel", "user_ins"}) =>
          /\ r.created = Len(chat_sessions)
          /\ rows # << >>
          /\ rows[1].role = "user" /\ rows[1].content = r.msg
          /\ rows[1].message_order = 1

\* C18: clear_conversation leaves every row of chat_sessions and
\* chat_messages as it was and resets conversation_history and
\* current_session_id; the message sent next creates a fresh Session row whose
\* first Message has order 1.
C18_ClearThenFresh ==
    /\ [][ClearConversation =>
             /\ chat_sessions' = chat_sessions
             /\ chat_messages' = chat_messages
             /\ conversation_history' = << >>
             /\ current_session_id' = 0]_vars
    /\ []FreshSession

C18_Witness ==
    LET r == calls[1] IN
    /\ r.pc = "done" /\ r.created = 2
    /\ Len(SessionRows(1)) = 2 /\ SessionRows(1)[2].message_order = 2
    /\ Len(SessionRows(2)) = 2 /\ SessionRows(2)[1].message_order = 1

\* C19: load_session_history with an id that is in no row of chat_sessions
\* returns the not-found status and leaves
\* conversation_history, current_session_id and session_name as they were;
\* with the id of a session it makes conversation_history the Messages of the
\* session, by message_order, and the session current.
C19_LoadOrNotFound ==
    [][\A session_id \in 1..(Len(chat_sessions) + 1) :
          LoadSessionHistory(session_id) =>
             IF session_id > Len(chat_sessions)
             THEN /\ loaded'.status = "not_found"
                  /\ conversation_history' = conversation_history
                  /\ current_session_id' = current_session_id
                  /\ session_name' = session_name
             ELSE LET n == Len(SessionRows(session_id)) IN
                  /\ loaded'.status = "loaded"
                  /\ current_session_id' = session_id
                  /\ Len(conversation_history') = n
                  /\ \A i \in 1..n :
                        \E m \in 1..Len(chat_messages) :
                            /\ chat_messages[m].session_id = session_id
                            /\ chat_messages[m].message_order = i
                            /\ conversation_history'[i] =
                                  Msg(chat_messages[m].role, chat_messages[m].content)]_vars

\* A load that found nothing while a session with history was current.
C19_Witness ==
    /\ loaded.status = "not_found"
    /\ current_session_id = 1 /\ session_name # NoName
    /\ Len(conversation_history) = 2

\* C20: every add_message that commits a Message to a session advances the
\* updated_at of that session (so that list_sessions, which orders by
\* updated_at, orders the sessions by their most recent Message).
C20_AddMessageAdvancesUpdatedAt ==
    [][\A c \in Calls :
          StoreAddInsert(c) =>
             chat_sessions'[txn[c].session_id].updated_at
                > chat_sessions[txn[c].session_id].updated_at]_vars

\* C21: when a write to the store has failed during an invocation, the
\* invocation still ends with a terminal event (completion or Error) given to
\* the caller, and every Message whose write failed was reported or has been
\* written by a retry.
C21_StoreFailureSurfaced ==
    LET r == calls[1] IN
    (r.pc = "done" /\ (r.left = "store" \/ r.lost # << >>)) =>
        /\ r.events # << >> /\ IsTerminal(Last(r.events))
        /\ \A i \in 1..Len(r.lost) :
              \/ \E j \in 1..Len(r.console) : r.console[j] = r.lost[i]
              \/ \E j \in 1..Len(r.wrote) : r.wrote[j] = r.lost[i]

\* C22: the backend an invocation sends its request to is the one in the row
\* of the current session, and every assistant Message of a session carries
\* in its metadata the backend of the session's row, whatever backend
\* arguments the invocations were given.
C22_BackendOfSession ==
    /\ (calls[1].db /\ calls[1].status # "" /\ current_session_id # 0) =>
           calls[1].be = chat_sessions[current_session_id].backend
    /\ \A i \in 1..Len(chat_messages) :
           chat_messages[i].role = "assistant" =>
               chat_messages[i].meta = chat_sessions[chat_messages[i].session_id].backend

\* One "Role: text" line per entry of h, in the order of h, with a newline
\* between two lines.
RoleLine(m) == <<IF m.role = "user" THEN "User: " ELSE "Assistant: ">> \o m.content
Flattened(h) ==
    Concat([i \in 1..(2 * Len(h) - 1) |->
               IF i % 2 = 1 THEN RoleLine(h[(i + 1) \div 2]) ELSE <<"\n">>])

\* C23: the prompt a chat object sends to the raw-generate backend (the
\* Ollama backend of the Gradio chat, OllamaChat) is, with reasoning off, the
\* history as it was before the call followed by the new user text, flattened
\* to one "Role: text" line per entry; with reasoning on it is the template of
\* the mode followed by the new user text and nothing of the history.
C23_RawGeneratePrompt ==
    LET r == calls[1] IN
    (Sent(r) /\ Protocol(r.be) = "ollama") =>
        r.req = IF r.reasoning
                THEN ReasoningPrompts[r.mode] \o r.msg
                ELSE Flattened(Append(r.before, Msg("user", r.msg)))

C23_Witness ==
    LET r == calls[1] IN
    /\ Sent(r) /\ r.be = "ollama_cli" /\ ~r.reasoning
    /\ r.req = <<"User: ", "h", "i", "\n", "Assistant: ", "a", "\n", "User: ", "h", "i">>

\* C24: in the SSE decoders (the vLLM backend of the Gradio chat, VLLMChat) a
\* frame without choices[0].delta.content gives no Delta event and does not
\* end the stream: the Delta events are those of the frames that carry text,
\* and after such a frame the loop goes on until the body ends; the frame
\* data: [DONE] ends the loop, and it is the last frame read.
C24_SseDecoder ==
    LET r == calls[1]
        n == Len(r.fed)
    IN Protocol(r.be) = "vllm" =>
          /\ SelectSeq(r.events, IsDelta) = DeltaEventsOf(r.be, TextsOf(r.fed))
          /\ (n > 0 /\ r.fed[n].k = "noop" /\ r.pc # "stream") => r.left \in {"eof", "drop"}
          /\ \A i \in 1..n :
                r.fed[i].k = "done" =>
                    i = n /\ r.pc = "done" /\ r.left = "break" /\ EndsWith(r, "done")

\* The stream of the repository's own server (fastapi_server.py 284-319): a
\* text chunk, the chunk with the empty delta, data: [DONE].
C24_Witness ==
    LET r == calls[1] IN
    /\ r.be = "vllm_cli" /\ r.pc = "done"
    /\ r.fed = <<Frame("delta", <<"a">>), Frame("noop", << >>), Frame("done", << >>)>>
    /\ r.events = <<Event("delta", <<"a">>, ""), Event("done", <<"a">>, "")>>

\* C25: an invocation that got no reply of its own (blank input, a status
\* other than 200, no connection) has written no assistant Message.
C25_NoReplyNoAssistantRow ==
    LET r == calls[1] IN
    (r.pc = "done" /\ r.status \in {"", "http", "conn"}) =>
        \A i \in 1..Len(r.wrote) : r.wrote[i].role # "assistant"

\* C26: when an invocation has completed, every user Message it wrote has in
\* the same session the assistant Message with the reply, whatever
\* clear_conversation, start_new_session and load_session_history did on the
\* chat instance while the invocation was under way.
C26_ReplyInSessionOfUserMessage ==
    LET r == calls[1] IN
    (r.pc = "done" /\ EndsWith(r, "done")) =>
        \A i \in 1..Len(r.wrote) :
            r.wrote[i].role = "user" =>
                \E j \in 1..Len(r.wrote) :
                    /\ r.wrote[j].role = "assistant"
                    /\ r.wrote[j].content = r.acc
                    /\ r.wrote[j].session_id = r.wrote[i].session_id

\* C27: between two operations (send, load, clear), when a session is
\* current, conversation_history holds the Messages the store has for that
\* session, with their roles and contents, by message_order.
C27_HistoryMirrorsStore ==
    (BetweenMessages /\ current_session_id # 0) =>
        conversation_history = DictHistory(ConversationHistoryOf(current_session_id))

\* user, assistant, user, assistant, ...
Alternates(h) ==
    \A i \in 1..Len(h) : h[i].role = IF i % 2 = 1 THEN "user" ELSE "assistant"

\* C28: after every call of a chat object (LLMGUIChat, OllamaChat, VLLMChat,
\* OpenAIChat), failed or not, the entries of conversation_history alternate
\* between user and assistant, the first being a user entry.
C28_HistoryAlternates ==
    calls[1].pc \in {"idle", "done"} => Alternates(conversation_history)

\* C29: when a streamed exchange on the NDJSON or the SSE protocol has given
\* the completion event and appended the reply to conversation_history, the
\* terminal frame of the protocol (done=true, data: [DONE]) was read.
C29_CompletedOnlyAfterTerminalFrame ==
    LET r == calls[1] IN
    (Protocol(r.be) \in {"ollama", "vllm"} /\ EndsWith(r, "done")) =>
        \E i \in 1..Len(r.fed) : r.fed[i].k \in {"done", "deltadone"}

\* What the backend did in an invocation: nothing (no request was sent), a
\* status other than 200 with its body, a failure of the connection, or a body
\* with its text (null when a text field of the body was null).
BodyText(r) ==
    IF ~r.stream THEN r.acc
    ELSE IF \E i \in 1..Len(r.fed) : r.fed[i].k = "nulltext" THEN None
    ELSE Concat(TextsOf(r.fed))

ResponseOf(r) ==
    CASE r.status = ""     -> [k |-> "none", resp |-> NoResponse, t |-> << >>]
      [] r.status = "http" -> [k |-> "http", resp |-> r.resp, t |-> << >>]
      [] r.status = "conn" \/ r.left = "drop" \/ (~r.stream /\ r.left = "raise")
                           -> [k |-> "fail", resp |-> NoResponse, t |-> << >>]
      [] OTHER             -> [k |-> "body", resp |-> NoResponse, t |-> BodyText(r)]

\* C30: send_message_stream and send_message_non_stream of a
\* DatabaseLLMGUIChat, called in the same state with the same text and
\* backend and given the same response by the backend, leave the same
\* conversation_history and have written the same Messages (session, role,
\* content, order, metadata), whether the backend replied or failed.
C30_StreamAndNonStreamAgree ==
    LET s == calls[2]
        n == calls[1]
    IN (s.pc = "kept" /\ n.pc = "done" /\ ResponseOf(s) = ResponseOf(n)) =>
          /\ conversation_history = s.after
          /\ n.wrote = s.wrote

====
